---- MODULE Spec2Model ----
(***************************************************************************)
(* itmdump: startup (fn main, fn open_read) and the ITM packet decode loop *)
(* of src/bin/itmdump.rs (fn run).                                         *)
(*                                                                         *)
(* Startup removes a stale entry at PATH, creates the named pipe and opens *)
(* it; any failure there is reported on stderr and ends the process with   *)
(* status 1.                                                               *)
(*                                                                         *)
(* The loop reads one header byte, derives port and type code, and, when   *)
(* the port is the chosen stimulus port, reads the payload and writes it   *)
(* to stdout.  The producer on the other end of the named pipe is the      *)
(* environment: it appends bytes to the stream at any time, and a read     *)
(* that finds too few bytes either waits or returns end-of-file.           *)
(***************************************************************************)
EXTENDS Integers, Naturals, Sequences, FiniteSets, TLC

\* ---------------------------------------------------------------- bounds
MaxLen == 5        \* bytes the producer writes during a run
MaxFaults == 1     \* I/O errors other than end-of-file injected during a run

\* ------------------------------------------------------------- constants
SleepMs == 100     \* thread::sleep(Duration::from_millis(100))

\* Byte values the producer may write, as headers or as payload:
\*   0x00 port 0, code 000 (no payload)    0x01 port 0, code 001 (1 byte)
\*   0x03 port 0, code 011 (4 bytes)       0x0A port 1, code 010 (2 bytes)
ByteVals == {0, 1, 3, 10}

\* Values of --stimulus tried (a u8; 32 is outside the 5-bit port field).
StimPorts == {0, 1, 32}

\* ---------------------------------------------------------------- state
VARIABLES
    entry,       \* what is at PATH: "none" | "stale" | "fifo"
    exit_code,   \* status passed to process::exit, 0 while the process runs
    report,      \* what main wrote to stderr ("" if nothing)
    stim_port,   \* the chosen stimulus port
    stream,      \* every byte the producer has written to the pipe so far
    pos,         \* number of bytes of stream the reader has consumed
    pc,          \* position of the program: "start" | "remove" | "mkfifo" |
                 \* "open" (open_read), "header" | "payload" (the loop), "exit"
    header,      \* the header byte of the running iteration (0 before read)
    output,      \* bytes accepted by stdout
    outIdx,      \* history: the stream index each byte of output came from
    hdrIdx,      \* history: the stream indices that were read as a header
    errlog,      \* number of lines written by error!()
    chunked,     \* history: the producer wrote after the loop had started
    last         \* history: how the most recent iteration ended

vars == <<entry, exit_code, report, stim_port, stream, pos, pc, header, output, outIdx,
          hdrIdx, errlog, chunked, last>>

\* ------------------------------------------------------ header decoding
\* let port = header >> 3;
Port(h) == h \div 8

\* Mutant of TypeCode: the mask keeps two bits only.
TypeCodeTwoBits(h) == h % 4

\* match header & 0b111
TypeCode(h) == h % 8

\* Mutant of PayloadSize: the default arm reads a one-byte payload.
PayloadSizeDefaultOne(code) ==
    CASE code = 1 -> 1
      [] code = 2 -> 2
      [] code = 3 -> 4
      [] OTHER    -> 1

\* the arms of the match: the size of the payload buffer read
PayloadSize(code) ==
    CASE code = 1 -> 1
      [] code = 2 -> 2
      [] code = 3 -> 4
      [] OTHER    -> 0

\* Mutant of Ignored: the chosen port is cut to the 5 bits of the port field.
IgnoredMasked(h, sp) == Port(h) # sp % 32

\* Mutant of Ignored: the port test is missing, every header is decoded.
IgnoredNever(h, sp) == FALSE

\* if port != stim_port { return Ok(()); }
Ignored(h, sp) == Port(h) # sp

\* Mutant of SleepFor: the handler retries at once, without sleeping.
SleepForNever(kind) == 0

\* Mutant of Logged: the handler swallows the error without logging it.
LoggedNever(kind) == 0

\* Mutant of AfterError: end-of-file is taken as the end of the input.
AfterErrorEofExits(kind) == IF kind = "UnexpectedEof" THEN "exit" ELSE "header"

\* Mutant of AfterError: an error other than end-of-file leaves the loop.
AfterErrorExits(kind) == IF kind = "UnexpectedEof" THEN "header" ELSE "exit"

\* Mutant of WriteAll: the payload is written last byte first.
WriteAllReversed(out, buf, n) == out \o [i \in 1..n |-> buf[n + 1 - i]]

\* --------------------------------------------------------- the handler
\* match e.kind() { UnexpectedEof => sleep(100ms), _ => error!(..) }
\* What the handler of a failed iteration does, by error kind.
SleepFor(kind) == IF kind = "UnexpectedEof" THEN SleepMs ELSE 0

Logged(kind) == IF kind = "UnexpectedEof" THEN 0 ELSE 1

\* After the handler the enclosing `loop` starts the next iteration.
AfterError(kind) == "header"

\* stdout.write_all(&payload): the sink after a write that accepted n bytes
WriteAll(out, buf, n) == out \o SubSeq(buf, 1, n)

Min(a, b) == IF a < b THEN a ELSE b

Avail == Len(stream) - pos

Need == PayloadSize(TypeCode(header))

\* The closure returned Ok(..): `if let Err(e)` does not match, the loop goes on.
EndOk(res, hdr, start) ==
    /\ last' = [res |-> res, hdr |-> hdr, start |-> start,
                slept |-> 0, out0 |-> Len(output)]
    /\ errlog' = errlog
    /\ header' = 0

\* The closure returned Err(e) with e.kind() = kind: the handler runs.
EndErr(res, hdr, start, kind) ==
    /\ last' = [res |-> res, hdr |-> hdr, start |-> start,
                slept |-> SleepFor(kind), out0 |-> Len(output)]
    /\ errlog' = errlog + Logged(kind)
    /\ header' = 0

\* ---------------------------------------------------------------- init
Init ==
    /\ entry \in {"none", "stale"}
    /\ exit_code = 0
    /\ report = ""
    /\ stim_port \in StimPorts
    /\ stream = <<>>
    /\ pos = 0
    /\ pc = "start"
    /\ header = 0
    /\ output = <<>>
    /\ outIdx = <<>>
    /\ hdrIdx = {}
    /\ errlog = 0
    /\ chunked = FALSE
    /\ last = [res |-> "none", hdr |-> 0, start |-> 0, slept |-> 0, out0 |-> 0]

\* The loop has taken a step (the first header read was attempted).
Started == last.res # "none" \/ pc = "payload"

\* -------------------------------------------------------------- startup
\* What open_read leaves alone.
loopVars == <<stim_port, stream, pos, header, output, outIdx, hdrIdx, errlog, chunked, last>>

\* Mutant of Fatal: the error is printed but the process ends with status 0.
FatalExitsZero(msg) ==
    /\ report' = msg
    /\ exit_code' = 0
    /\ pc' = "exit"

\* main: if let Err(e) = run() { writeln!(stderr, ..); process::exit(1) }
Fatal(msg) ==
    /\ report' = msg
    /\ exit_code' = 1
    /\ pc' = "exit"

\* Mutant of AfterExists: the stale entry is not removed.
AfterExistsSkipsRemove(e) == "mkfifo"

\* Where open_read goes after `if pipe.exists()`.
AfterExists(e) == IF e # "none" THEN "remove" ELSE "mkfifo"

\* if pipe.exists() { .. }
CheckExists ==
    /\ pc = "start"
    /\ pc' = AfterExists(entry)
    /\ UNCHANGED <<entry, exit_code, report>>
    /\ UNCHANGED loopVars

\* fs::remove_file(&pipe) succeeds.
RemoveOk ==
    /\ pc = "remove"
    /\ entry' = "none"
    /\ pc' = "mkfifo"
    /\ UNCHANGED <<exit_code, report>>
    /\ UNCHANGED loopVars

\* fs::remove_file(&pipe) fails: try! returns the chained error to main.
RemoveFail ==
    /\ pc = "remove"
    /\ Fatal("couldn't remove")
    /\ UNCHANGED entry
    /\ UNCHANGED loopVars

\* libc::mkfifo returns 0; it cannot when something is at PATH (EEXIST).
MkfifoOk ==
    /\ pc = "mkfifo"
    /\ entry = "none"
    /\ entry' = "fifo"
    /\ pc' = "open"
    /\ UNCHANGED <<exit_code, report>>
    /\ UNCHANGED loopVars

\* libc::mkfifo returns non-zero.
MkfifoFail ==
    /\ pc = "mkfifo"
    /\ Fatal("couldn't create a named pipe")
    /\ UNCHANGED entry
    /\ UNCHANGED loopVars

\* File::open(&pipe) succeeds: run enters the loop.
OpenOk ==
    /\ pc = "open"
    /\ pc' = "header"
    /\ UNCHANGED <<entry, exit_code, report>>
    /\ UNCHANGED loopVars

\* File::open(&pipe) fails.
OpenFail ==
    /\ pc = "open"
    /\ Fatal("couldn't open")
    /\ UNCHANGED entry
    /\ UNCHANGED loopVars

\* One step of open_read.
StartupStep ==
    \/ CheckExists
    \/ RemoveOk
    \/ RemoveFail
    \/ MkfifoOk
    \/ MkfifoFail
    \/ OpenOk
    \/ OpenFail

\* ----------------------------------------------------------------- loop
\* The producer writes one more byte into the pipe the reader has opened.
Produce(b) ==
    /\ pc \in {"header", "payload"}
    /\ Len(stream) < MaxLen
    /\ stream' = Append(stream, b)
    /\ chunked' = (chunked \/ Started)
    /\ UNCHANGED <<hdrIdx, entry, exit_code, report, stim_port, pos, pc, header, output, outIdx, errlog, last>>

\* stream.read_exact(&mut header) succeeds; port test; match on the type code
\* with no payload to read (other port, or unknown code).
HeaderSkip ==
    /\ pc = "header"
    /\ Avail >= 1
    /\ LET h == stream[pos + 1] IN
        /\ Ignored(h, stim_port) \/ PayloadSize(TypeCode(h)) = 0
        /\ pos' = pos + 1
        /\ hdrIdx' = hdrIdx \cup {pos + 1}
        /\ pc' = "header"
        /\ EndOk(IF Ignored(h, stim_port) THEN "notport" ELSE "unhandled", h, pos)
    /\ UNCHANGED <<entry, exit_code, report, stim_port, stream, output, outIdx, chunked>>

\* stream.read_exact(&mut header) succeeds, the port is the chosen one and
\* the type code has a payload: the iteration goes on to read it.
HeaderPayload ==
    /\ pc = "header"
    /\ Avail >= 1
    /\ LET h == stream[pos + 1] IN
        /\ ~Ignored(h, stim_port)
        /\ PayloadSize(TypeCode(h)) > 0
        /\ header' = h
        /\ pos' = pos + 1
        /\ hdrIdx' = hdrIdx \cup {pos + 1}
        /\ pc' = "payload"
    /\ UNCHANGED <<entry, exit_code, report, stim_port, stream, output, outIdx, errlog, chunked, last>>

\* read_exact for the header finds the pipe empty and at end-of-file.
HeaderEof ==
    /\ pc = "header"
    /\ Avail = 0
    /\ pc' = AfterError("UnexpectedEof")
    /\ EndErr("eof_header", 0, pos, "UnexpectedEof")
    /\ UNCHANGED <<hdrIdx, entry, exit_code, report, stim_port, stream, pos, output, outIdx, chunked>>

\* read_exact for the header fails with another error kind: no byte is taken.
HeaderErr ==
    /\ pc = "header"
    /\ errlog < MaxFaults
    /\ pc' = AfterError("Other")
    /\ EndErr("err_header", 0, pos, "Other")
    /\ UNCHANGED <<hdrIdx, entry, exit_code, report, stim_port, stream, pos, output, outIdx, chunked>>

\* Mutant of Forward: the header byte is written in front of the payload.
ForwardEchoesHeader ==
    /\ pc = "payload"
    /\ Avail >= Need
    /\ output' = output \o SubSeq(stream, pos, pos + Need)
    /\ outIdx' = outIdx \o [i \in 1..(Need + 1) |-> pos + i - 1]
    /\ pos' = pos + Need
    /\ pc' = "header"
    /\ EndOk("fwd", header, pos - 1)
    /\ UNCHANGED <<hdrIdx, entry, exit_code, report, stim_port, stream, chunked>>

\* The payload read succeeds and write_all accepts the whole payload.
Forward ==
    /\ pc = "payload"
    /\ Avail >= Need
    /\ LET payload == SubSeq(stream, pos + 1, pos + Need) IN
        /\ output' = WriteAll(output, payload, Need)
        /\ outIdx' = outIdx \o [i \in 1..Need |-> pos + i]
    /\ pos' = pos + Need
    /\ pc' = "header"
    /\ EndOk("fwd", header, pos - 1)
    /\ UNCHANGED <<hdrIdx, entry, exit_code, report, stim_port, stream, chunked>>

\* The payload read succeeds and write_all fails after accepting n bytes.
ForwardWriteErr ==
    /\ pc = "payload"
    /\ Avail >= Need
    /\ errlog < MaxFaults
    /\ \E n \in 0..(Need - 1) :
        LET payload == SubSeq(stream, pos + 1, pos + Need) IN
        /\ output' = WriteAll(output, payload, n)
        /\ outIdx' = outIdx \o [i \in 1..n |-> pos + i]
    /\ pos' = pos + Need
    /\ pc' = AfterError("Other")
    /\ EndErr("err_write", header, pos - 1, "Other")
    /\ UNCHANGED <<hdrIdx, entry, exit_code, report, stim_port, stream, chunked>>

\* Mutant of PayloadEof: the bytes read before end-of-file are written out.
PayloadEofFlushesPartial ==
    /\ pc = "payload"
    /\ Avail < Need
    /\ output' = output \o SubSeq(stream, pos + 1, Len(stream))
    /\ outIdx' = outIdx \o [i \in 1..Avail |-> pos + i]
    /\ pos' = Len(stream)
    /\ pc' = AfterError("UnexpectedEof")
    /\ EndErr("eof_payload", header, pos - 1, "UnexpectedEof")
    /\ UNCHANGED <<hdrIdx, entry, exit_code, report, stim_port, stream, chunked>>

\* Mutant of PayloadEof: the stream is put back at the packet's header, so
\* that the retry reads the whole packet again.
PayloadEofRewinds ==
    /\ pc = "payload"
    /\ Avail < Need
    /\ pos' = pos - 1
    /\ pc' = AfterError("UnexpectedEof")
    /\ EndErr("eof_payload", header, pos - 1, "UnexpectedEof")
    /\ UNCHANGED <<hdrIdx, entry, exit_code, report, stim_port, stream, output, outIdx, chunked>>

\* read_exact for the payload runs into end-of-file: the bytes that were
\* there are consumed, the buffer is dropped.
PayloadEof ==
    /\ pc = "payload"
    /\ Avail < Need
    /\ pos' = Len(stream)
    /\ pc' = AfterError("UnexpectedEof")
    /\ EndErr("eof_payload", header, pos - 1, "UnexpectedEof")
    /\ UNCHANGED <<hdrIdx, entry, exit_code, report, stim_port, stream, output, outIdx, chunked>>

\* read_exact for the payload fails with another error kind after k bytes.
PayloadErr ==
    /\ pc = "payload"
    /\ errlog < MaxFaults
    /\ \E k \in 0..Min(Avail, Need - 1) : pos' = pos + k
    /\ pc' = AfterError("Other")
    /\ EndErr("err_payload", header, pos - 1, "Other")
    /\ UNCHANGED <<hdrIdx, entry, exit_code, report, stim_port, stream, output, outIdx, chunked>>

Next ==
    \/ CheckExists
    \/ RemoveOk
    \/ RemoveFail
    \/ MkfifoOk
    \/ MkfifoFail
    \/ OpenOk
    \/ OpenFail
    \/ \E b \in ByteVals : Produce(b)
    \/ HeaderSkip
    \/ HeaderPayload
    \/ HeaderEof
    \/ HeaderErr
    \/ Forward
    \/ ForwardWriteErr
    \/ PayloadEof
    \/ PayloadErr

Spec == Init /\ [][Next]_vars

\* ------------------------------------------------ runs without I/O errors
\* A step of the loop in which no read or write fails, end-of-file apart.
LoopStepNoFault ==
    \/ HeaderSkip
    \/ HeaderPayload
    \/ HeaderEof
    \/ Forward
    \/ PayloadEof

NextLive ==
    \/ StartupStep
    \/ \E b \in ByteVals : Produce(b)
    \/ LoopStepNoFault

\* The loop is the only thread and never waits for anything but its reads;
\* a read with too few bytes in the pipe returns end-of-file once the
\* producer has closed its end.  Nothing is assumed of the producer or of
\* startup (File::open waits for a writer).
SpecLive == Init /\ [][NextLive]_vars /\ WF_vars(LoopStepNoFault)

\* ------------------------------------------------- decoding of one header
\* The bytes that follow the header under test in the pipe.
Filler == <<1, 3, 10, 0>>

\* The loop after a successful startup, with a stream that begins with any
\* of the 256 header values (port p, type code c) followed by four bytes,
\* and a stimulus port that is the header's port or the next one.
InitDecode ==
    /\ entry = "fifo"
    /\ exit_code = 0
    /\ report = ""
    /\ \E p \in 0..31, c \in 0..7 :
        /\ stream = <<8 * p + c>> \o Filler
        /\ stim_port \in {p, (p + 1) % 32}
    /\ pos = 0
    /\ pc = "header"
    /\ header = 0
    /\ output = <<>>
    /\ outIdx = <<>>
    /\ hdrIdx = {}
    /\ errlog = 0
    /\ chunked = FALSE
    /\ last = [res |-> "none", hdr |-> 0, start |-> 0, slept |-> 0, out0 |-> 0]

\* The loop draining that stream, without I/O errors.
NextDecode ==
    \/ HeaderSkip
    \/ HeaderPayload
    \/ Forward
    \/ PayloadEof
    \/ HeaderEof

SpecDecode == InitDecode /\ [][NextDecode]_vars

\* One step of the loop (any action but the producer's).
LoopStep ==
    \/ HeaderSkip
    \/ HeaderPayload
    \/ HeaderEof
    \/ HeaderErr
    \/ Forward
    \/ ForwardWriteErr
    \/ PayloadEof
    \/ PayloadErr

\* ----------------------------------------------- the packet format (3.)
\* The stream as the producer frames it: each packet is a header followed by
\* the payload its type code announces (code 001: 1, 010: 2, 011: 4 bytes).
FrameSize(h) == IF h % 8 = 1 THEN 1 ELSE IF h % 8 = 2 THEN 2 ELSE IF h % 8 = 3 THEN 4 ELSE 0

\* s, read from index i, is a concatenation of complete 1/2/4-byte packets.
RECURSIVE WellFormed(_, _)
WellFormed(s, i) ==
    IF i = Len(s) + 1 THEN TRUE
    ELSE IF i > Len(s) THEN FALSE
    ELSE /\ s[i] % 8 \in {1, 2, 3}
         /\ WellFormed(s, i + 1 + FrameSize(s[i]))

\* Every packet of the well-formed s, from index i, is from port sp.
RECURSIVE AllFromPort(_, _, _)
AllFromPort(s, i, sp) ==
    IF i > Len(s) THEN TRUE
    ELSE /\ s[i] \div 8 = sp
         /\ AllFromPort(s, i + 1 + FrameSize(s[i]), sp)

\* The payloads of the packets of s from port sp, concatenated in order.
RECURSIVE PortPayloads(_, _, _)
PortPayloads(s, i, sp) ==
    IF i > Len(s) THEN <<>>
    ELSE LET n == FrameSize(s[i]) IN
         (IF s[i] \div 8 = sp THEN SubSeq(s, i + 1, Min(i + n, Len(s))) ELSE <<>>)
             \o PortPayloads(s, i + 1 + n, sp)

\* The stream indices that hold payload bytes of packets from other ports.
RECURSIVE OtherPayloadIdx(_, _, _)
OtherPayloadIdx(s, i, sp) ==
    IF i > Len(s) THEN {}
    ELSE LET n == FrameSize(s[i]) IN
         (IF s[i] \div 8 # sp THEN (i + 1)..Min(i + n, Len(s)) ELSE {})
             \cup OtherPayloadIdx(s, i + 1 + n, sp)

\* The loop has caught up with the producer and awaits a header.
Drained == pc = "header" /\ pos = Len(stream) /\ Started

\* The iteration that ended last returned Ok from the closure.
LastOk == last.res \in {"notport", "unhandled", "fwd"}

TypeOK ==
    /\ stim_port \in StimPorts
    /\ pos \in 0..Len(stream)
    /\ pc \in {"start", "remove", "mkfifo", "open", "header", "payload", "exit"}
    /\ hdrIdx \subseteq 1..pos
    /\ Len(output) = Len(outIdx)

\* ================================================================ claims

\* C1: every header with type code 001, 010 or 011 has its 1, 2 or 4 payload
\* bytes consumed right after it, whether or not its port is the chosen
\* one, so the next header is the byte after the payload.  Stated of an
\* iteration that ended without an I/O failure and whose payload bytes had
\* all been written by the producer.
C1_PayloadConsumedAnyPort ==
    (/\ pc = "header"
     /\ LastOk
     /\ last.hdr % 8 \in {1, 2, 3}
     /\ Len(stream) >= last.start + 1 + FrameSize(last.hdr))
        => pos = last.start + 1 + FrameSize(last.hdr)

\* C2: no payload byte of a packet from another port ever reaches the
\* output, for a stream of well-formed packets (here: all written before the
\* loop starts, no I/O error).
C2_OtherPortNeverForwarded ==
    (WellFormed(stream, 1) /\ ~chunked /\ errlog = 0)
        => \A k \in 1..Len(outIdx) :
               outIdx[k] \notin OtherPayloadIdx(stream, 1, stim_port)

\* C3: for a fully available stream of N well-formed packets, the output
\* ends up as the concatenation of the payloads of the packets from the
\* chosen port.
C3_OutputIsPortPayloads ==
    (Drained /\ WellFormed(stream, 1) /\ ~chunked /\ errlog = 0)
        => output = PortPayloads(stream, 1, stim_port)

\* A step that reads the whole payload of the running iteration's packet.
PayloadFullyRead ==
    /\ pc = "payload"
    /\ stream' = stream
    /\ pos' = pos + FrameSize(header)

\* The payload of the running iteration's packet, as it stands in the stream.
StreamPayload == SubSeq(stream, pos + 1, pos + FrameSize(header))

C5_UnknownCodeSkipsHeaderOnly ==
    [][(/\ pc = "header"
        /\ stream' = stream
        /\ pos' = pos + 1
        /\ stream[pos + 1] % 8 \notin {1, 2, 3})
           => (pc' = "header" /\ output' = output)]_vars

\* C5 witness (scenario 4): 0x00 then the packet 0x01 0x03 on port 0: the
\* first header contributes nothing, the payload 0x03 is forwarded.
C5_Witness ==
    /\ stim_port = 0
    /\ stream = <<0, 1, 3>>
    /\ output = <<3>>
    /\ pos = 3
    /\ last.res = "fwd"

\* C6 (as stated): the output grows only by a complete 1-, 2- or 4-byte
\* payload of a packet from the chosen port, and an iteration whose header
\* or payload read fails leaves it unchanged.
C6_OnlyCompletePayloads ==
    [][\/ output' = output
       \/ /\ PayloadFullyRead
          /\ header \div 8 = stim_port
          /\ output' = output \o StreamPayload]_vars

\* C6 (amended): the output grows only by a complete payload of a packet
\* from the chosen port or, when write_all itself fails, by a proper prefix
\* of that payload; an iteration whose header or payload read fails leaves
\* the output unchanged.
C6_CompleteOrFailedWrite ==
    [][/\ \/ output' = output
          \/ /\ PayloadFullyRead
             /\ header \div 8 = stim_port
             /\ output' = output \o StreamPayload
          \/ /\ PayloadFullyRead
             /\ header \div 8 = stim_port
             /\ last'.res = "err_write"
             /\ \E n \in 1..(FrameSize(header) - 1) :
                    output' = output \o SubSeq(StreamPayload, 1, n)
       /\ (HeaderEof \/ HeaderErr \/ PayloadEof \/ PayloadErr) => output' = output]_vars

\* C6 witness (scenario 5): the header announces 4 bytes, 2 are there and the
\* read runs into end-of-file; nothing of that packet is in the output.
C6_Witness ==
    /\ last.res = "eof_payload"
    /\ last.hdr % 8 = 3
    /\ pos = last.start + 3
    /\ Len(output) = last.out0
    /\ pc = "header"

\* C7: however the bytes of a stream of well-formed packets arrive over
\* time, the final output is the concatenation of the payloads of the
\* packets from the chosen port.  Stated for streams whose packets are all
\* from the chosen port and for runs without I/O errors.
C7_ChunkingInvisible ==
    (/\ Drained
     /\ WellFormed(stream, 1)
     /\ AllFromPort(stream, 1, stim_port)
     /\ errlog = 0)
        => output = PortPayloads(stream, 1, stim_port)

\* A step in which the closure of the running iteration returns Err.
IterationFails == HeaderEof \/ HeaderErr \/ PayloadEof \/ PayloadErr \/ ForwardWriteErr

\* C8: once started, the loop has no terminal state: after any read or write
\* failure it is at the start of an iteration awaiting a header, it never
\* leaves the loop or exits with a status, and a next step of the loop is
\* always possible.
C8_LoopNeverEnds ==
    /\ [][(pc \in {"header", "payload"})
             => (pc' \in {"header", "payload"} /\ exit_code' = 0)]_vars
    /\ [](pc \in {"header", "payload"} => ENABLED LoopStep)
    /\ [][IterationFails => pc' = "header"]_vars

\* C8 witness: an I/O error was logged, later a payload read hit end-of-file,
\* and the loop awaits a header again.
C8_Witness ==
    /\ errlog >= 1
    /\ last.res = "eof_payload"
    /\ pc = "header"

\* C9: a header read that finds no data yet makes the loop sleep 100 ms and
\* retry the header read, with no error logged, no byte consumed and nothing
\* written.
C9_NoDataSleepsAndRetries ==
    [][HeaderEof => /\ last'.slept = 100
                    /\ errlog' = errlog
                    /\ pos' = pos
                    /\ output' = output
                    /\ pc' = "header"]_vars

\* C9 witness: after consuming some data the loop found the pipe empty and
\* slept.
C9_Witness ==
    /\ last.res = "eof_header"
    /\ last.slept = 100
    /\ pos = Len(stream)
    /\ pos > 0

\* C10: every failure other than the no-data condition, at the header read,
\* the payload read or the output write, is logged exactly once and the loop
\* goes on to the next iteration without sleeping.
C10_OtherErrorsLoggedOnce ==
    [][(HeaderErr \/ PayloadErr \/ ForwardWriteErr)
           => /\ errlog' = errlog + 1
              /\ last'.slept = 0
              /\ pc' = "header"]_vars

\* C10 witness: a failed write_all was logged and the loop awaits a header.
C10_Witness ==
    /\ last.res = "err_write"
    /\ errlog = 1
    /\ last.slept = 0
    /\ pc = "header"

\* C11: with a stimulus port outside the 5-bit range (32..255) no header
\* ever matches: no payload is read and the output stays empty.
C11_OutOfRangePortForwardsNothing ==
    (stim_port >= 32) => (output = <<>> /\ pc # "payload")

\* C11 witness: with port 32 the loop has gone through headers of port 0
\* and port 1 that announce payloads, and has forwarded nothing.
C11_Witness ==
    /\ stim_port = 32
    /\ stream = <<1, 10, 3>>
    /\ pos = 3
    /\ hdrIdx = {1, 2, 3}
    /\ output = <<>>

\* A step in which removal, creation or opening fails.
StartupFails == RemoveFail \/ MkfifoFail \/ OpenFail

\* C12: when removal, creation or opening fails, the error is reported, the
\* process exits with a non-zero status and the loop never starts: nothing
\* is read from the stream and nothing is written to the output.
C12_StartupFailureIsFatal ==
    /\ [][StartupFails => (pc' = "exit" /\ exit_code' # 0 /\ report' # "")]_vars
    /\ [](pc = "exit" => /\ exit_code # 0
                         /\ report # ""
                         /\ ~Started
                         /\ pos = 0
                         /\ hdrIdx = {}
                         /\ output = <<>>)
    /\ [][(pc = "exit") => (pc' = "exit")]_vars

\* C12 witness: mkfifo failed, the error was reported and the process
\* exited with status 1.
C12_Witness ==
    /\ pc = "exit"
    /\ report = "couldn't create a named pipe"
    /\ exit_code = 1
    /\ output = <<>>

\* C13: an entry found at the path is removed before the pipe is created,
\* the pipe is created before it is opened, and a failed removal ends
\* startup with no creation, no opening and no retry.
C13_ProvisioningIsOrdered ==
    /\ [](pc = "mkfifo" => entry = "none")
    /\ [](pc \in {"open", "header", "payload"} => entry = "fifo")
    /\ [][RemoveFail => (pc' = "exit" /\ entry' = entry)]_vars
    /\ [][(pc = "exit") => (pc' = "exit" /\ entry' = entry)]_vars

\* C13 witness: the removal of the stale entry failed; the entry is still
\* there, nothing was created and the process has exited.
C13_Witness ==
    /\ pc = "exit"
    /\ report = "couldn't remove"
    /\ entry = "stale"

\* C14: after a payload read that ran into end-of-file the loop sleeps and
\* then retries the entire payload read of the same packet: either the
\* payload read itself is repeated from the payload's first byte, or the
\* iteration is repeated from the packet's header.
C14_PayloadReadRetried ==
    [][PayloadEof =>
          \/ (pc' = "payload" /\ header' = header /\ pos' = last'.start + 1)
          \/ (pc' = "header" /\ pos' = last'.start)]_vars

\* The first iteration, on the header stream[1], has ended.
FirstIterationDone == pc = "header" /\ last.res # "none" /\ last.start = 0 /\ 1 \in hdrIdx

\* C15: for each of the 256 header values h = 8p + c (p in 0..31, c in
\* 0..7) the port decoded is p and the type code is c, and when p is the
\* chosen port the payload read is 1 byte for c = 001, 2 for 010, 4 for 011
\* and none for every other code.
C15_HeaderDecoding ==
    LET h == stream[1] IN
    /\ stream[1] \in 0..255
    /\ \E p \in 0..31, c \in 0..7 :
        /\ h = 8 * p + c
        /\ Port(h) = p
        /\ TypeCode(h) = c
        /\ (FirstIterationDone /\ p = stim_port) =>
              LET n == IF c = 1 THEN 1 ELSE IF c = 2 THEN 2 ELSE IF c = 3 THEN 4 ELSE 0
              IN /\ pos = 1 + n
                 /\ output = SubSeq(stream, 2, 1 + n)
        /\ (pc = "payload" /\ pos = 1) => (p = stim_port /\ c \in {1, 2, 3})

\* C15 witness: header 0xFB (port 31, code 011) on port 31: four payload
\* bytes were read and forwarded.
C15_Witness ==
    /\ stream[1] = 251
    /\ stim_port = 31
    /\ FirstIterationDone
    /\ pos = 5
    /\ output = Filler

\* A step that reads the header at stream[pos + 1].
HeaderRead == pc = "header" /\ stream' = stream /\ pos' = pos + 1

\* C16: a header from another port ends the iteration at once: one byte (the
\* header) consumed, nothing written, whatever the type code; the next
\* iteration reads the following byte as a header.
C16_OtherPortConsumesHeaderOnly ==
    [][(HeaderRead /\ stream[pos + 1] \div 8 # stim_port)
          => /\ pc' = "header"
             /\ output' = output
             /\ errlog' = errlog
             /\ last'.res = "notport"
             /\ last'.start = pos]_vars

\* C16 witness: port 0 chosen, the header 0x0A (port 1, code 010) was read
\* with its two payload bytes in the pipe; they are still unread and the
\* output is as before.
C16_Witness ==
    /\ stim_port = 0
    /\ last.res = "notport"
    /\ last.hdr = 10
    /\ pc = "header"
    /\ pos = last.start + 1
    /\ Len(stream) >= pos + 2
    /\ Len(output) = last.out0

\* A step in which the running iteration ends.
IterationEnds == HeaderSkip \/ Forward \/ IterationFails

\* C17: the stream position never goes back: what a failed iteration
\* consumed (its header, part of its payload) stays consumed, and every
\* iteration, also the one after a failed payload read, starts with a header
\* read of one byte at the next unconsumed position.
C17_PositionNeverRewinds ==
    /\ [][pos' >= pos]_vars
    /\ [][(PayloadEof \/ PayloadErr \/ ForwardWriteErr)
             => (pos' >= pos /\ pos' > last'.start /\ pc' = "header")]_vars
    /\ [][IterationEnds => (pc' = "header" /\ header' = 0)]_vars
    /\ [][(pc = "header" /\ LoopStep /\ pos' # pos)
             => (pos' = pos + 1 /\ hdrIdx' = hdrIdx \cup {pos + 1}
                 /\ pos + 1 \notin hdrIdx)]_vars

\* C17 witness: a payload read failed after the header and one payload
\* byte were consumed; the next iteration then read its header at the next
\* unconsumed position.
C17_Witness ==
    /\ errlog = 1
    /\ hdrIdx = {1, 3}
    /\ pos = 3
    /\ pc = "header"
    /\ output = <<>>
    /\ stream[1] = 3

\* C18: the output is a subsequence of the bytes consumed so far that holds
\* no byte read as a header; an iteration consumes at most 5 bytes and
\* writes at most once, at most 4 bytes, and only after its payload read
\* has completed.
C18_OutputFromConsumedPayloads ==
    /\ [](/\ Len(outIdx) = Len(output)
          /\ \A k \in 1..Len(output) :
                /\ outIdx[k] \in 1..pos
                /\ outIdx[k] \notin hdrIdx
                /\ output[k] = stream[outIdx[k]]
                /\ k > 1 => outIdx[k - 1] < outIdx[k]
          /\ pc = "header" => pos - last.start <= 5
          /\ Len(output) - last.out0 <= 4)
    /\ [][(output' # output)
             => /\ PayloadFullyRead
                /\ IterationEnds
                /\ Len(output') - Len(output) <= 4
                /\ pos' - last'.start <= 5]_vars

\* C18 witness: port 1 chosen, stream 0x01 0x0A 0x03 0x00: the bytes at
\* indices 1 and 2 were read as headers, the payload at indices 3 and 4
\* is the output.
C18_Witness ==
    /\ stim_port = 1
    /\ stream = <<1, 10, 3, 0>>
    /\ hdrIdx = {1, 2}
    /\ outIdx = <<3, 4>>
    /\ output = <<3, 0>>
    /\ pos = 4

\* The loop polls an empty pipe: header read, end-of-file, sleep.
Polling ==
    /\ pc = "header"
    /\ pos = Len(stream)
    /\ last.res = "eof_header"
    /\ last.slept = 100

\* Startup is still under way or has failed.
NoLoop == pc \in {"start", "remove", "mkfifo", "open"} \/ report # ""

====
